---- MODULE Spec2Model ----
(***************************************************************************)
(* Progress reconciliation of JiraDuoCodeAgent:                            *)
(*   - ProgressTracker (src/jira_gitlab_agent.py): the checklist codec     *)
(*     (_parse_progress_section / _update_progress_section), the five      *)
(*     signal checks and update_progress;                                  *)
(*   - StatusMonitor (src/status_monitor.py): the tracked set active_mrs   *)
(*     and monitor_loop.                                                   *)
(* Descriptions are TLA+ strings; positions are 0-based as in Python.      *)
(***************************************************************************)
EXTENDS Integers, Sequences, FiniteSets, TLC

(***************************************************************************)
(* Python string primitives used by the codec.                             *)
(***************************************************************************)

\* s[a:b] for 0 <= a, b <= len(s)
Slice(s, a, b) == SubSeq(s, a + 1, b)

\* s[a:]
SliceFrom(s, a) == SubSeq(s, a + 1, Len(s))

\* s.find(sub, start): lowest index >= start where sub occurs, else -1
Find(s, sub, start) ==
  LET hits == {i \in start..(Len(s) - Len(sub)) : Slice(s, i, i + Len(sub)) = sub}
  IN  IF hits = {} THEN -1
      ELSE CHOOSE i \in hits : \A j \in hits : i <= j

\* sub in s
Contains(s, sub) == Find(s, sub, 0) # -1

\* the upper-case letters and their lower-case forms
UpperToLower ==
  [A |-> "a", B |-> "b", C |-> "c", D |-> "d", E |-> "e", F |-> "f", G |-> "g",
   H |-> "h", I |-> "i", J |-> "j", K |-> "k", L |-> "l", M |-> "m", N |-> "n",
   O |-> "o", P |-> "p", Q |-> "q", R |-> "r", S |-> "s", T |-> "t", U |-> "u",
   V |-> "v", W |-> "w", X |-> "x", Y |-> "y", Z |-> "z"]

\* c.lower() for a one-character string
LowerChar(c) == IF c \in DOMAIN UpperToLower THEN UpperToLower[c] ELSE c

RECURSIVE LowerFrom(_, _)
LowerFrom(s, i) ==
  IF i > Len(s) THEN "" ELSE LowerChar(SubSeq(s, i, i)) \o LowerFrom(s, i + 1)

\* s.lower()
Lower(s) == LowerFrom(s, 1)

\* s.split('\n')
SplitLines(s) ==
  LET nl == {i \in 0..(Len(s) - 1) : Slice(s, i, i + 1) = "\n"}
      \* position of the n-th newline; -1 for n = 0 and len(s) past the last
      at(n) == IF n = 0 THEN -1
               ELSE IF n > Cardinality(nl) THEN Len(s)
               ELSE CHOOSE i \in nl : Cardinality({j \in nl : j < i}) = n - 1
  IN  [n \in 1..(Cardinality(nl) + 1) |-> Slice(s, at(n - 1) + 1, at(n))]

(***************************************************************************)
(* Checklist state.                                                        *)
(***************************************************************************)

Items == <<"setup", "implementation", "tests", "documentation", "review", "acceptance">>

ItemSet == {Items[i] : i \in 1..Len(Items)}

\* every checklist state: a dict with the six keys
ProgressStates == [ItemSet -> BOOLEAN]

\* the progress dict _parse_progress_section starts from
DefaultProgress == [it \in ItemSet |-> FALSE]

\* the empty dict {} returned on failure
EmptyDict == <<>>

\* progress.get(key, False)
Get(progress, key) == IF key \in DOMAIN progress THEN progress[key] ELSE FALSE

Header == "## Progress Tracking"

\* the keyword looked for in a checked line, per item, in if/elif order
Keywords == <<"setup", "implementation", "test", "documentation", "review", "acceptance">>

\* the label rendered after the checkbox, per item
Labels == <<"Initial setup complete", "Core functionality implemented",
            "Tests added and passing", "Documentation complete",
            "Code reviewed", "Acceptance criteria met">>

\* a chain of independent ifs: the last keyword found wins
MatchedItem_last(low) ==
  LET hits == {i \in 1..Len(Keywords) : Contains(low, Keywords[i])}
  IN  IF hits = {} THEN 0
      ELSE CHOOSE i \in hits : \A j \in hits : i >= j

\* the if/elif chain on a lower-cased line: index of the first keyword found, 0 if none
MatchedItem(low) ==
  LET hits == {i \in 1..Len(Keywords) : Contains(low, Keywords[i])}
  IN  IF hits = {} THEN 0
      ELSE CHOOSE i \in hits : \A j \in hits : i <= j

\* the item a line sets: none (0) unless '- [x]' in line.lower()
LineItem(line) ==
  LET low == Lower(line)
  IN  IF Contains(low, "- [x]") THEN MatchedItem(low) ELSE 0

_parse_progress_section(description) ==
  LET start == Find(description, Header, 0)
      end   == Find(description, "##", start + 1)
      progress_section == IF end = -1 THEN SliceFrom(description, start)
                          ELSE Slice(description, start, end)
      lines == SplitLines(progress_section)
      set   == {LineItem(lines[n]) : n \in 1..Len(lines)}
  IN  IF start = -1 THEN DefaultProgress
      ELSE [it \in ItemSet |-> \E i \in set : i # 0 /\ Items[i] = it]

\* one rendered checkbox line
CheckboxLine(progress, i) ==
  "- [" \o (IF progress[Items[i]] THEN "x" ELSE " ") \o "] " \o Labels[i] \o "\n"

\* the rendered section: header, six checkbox lines, one blank line
RenderSection(progress) ==
  Header \o "\n"
    \o CheckboxLine(progress, 1) \o CheckboxLine(progress, 2)
    \o CheckboxLine(progress, 3) \o CheckboxLine(progress, 4)
    \o CheckboxLine(progress, 5) \o CheckboxLine(progress, 6) \o "\n"

\* an _update_progress_section that resumes after the '##' it stopped at
_update_progress_section_skip_marker(description, progress) ==
  LET start == Find(description, Header, 0)
      end   == Find(description, "##", start + 1)
  IN  IF start = -1 THEN description
      ELSE LET before_progress == Slice(description, 0, start)
               after_progress  == IF end = -1 THEN "" ELSE SliceFrom(description, end + 2)
           IN  before_progress \o RenderSection(progress) \o after_progress

\* an _update_progress_section that appends a section when there is none
_update_progress_section_inject(description, progress) ==
  LET start == Find(description, Header, 0)
      end   == Find(description, "##", start + 1)
  IN  IF start = -1 THEN description \o RenderSection(progress)
      ELSE LET before_progress == Slice(description, 0, start)
               after_progress  == IF end = -1 THEN "" ELSE SliceFrom(description, end)
           IN  before_progress \o RenderSection(progress) \o after_progress

_update_progress_section(description, progress) ==
  LET start == Find(description, Header, 0)
      end   == Find(description, "##", start + 1)
  IN  IF start = -1 THEN description
      ELSE LET before_progress == Slice(description, 0, start)
               after_progress  == IF end = -1 THEN "" ELSE SliceFrom(description, end)
           IN  before_progress \o RenderSection(progress) \o after_progress

(***************************************************************************)
(* Signal checks of ProgressTracker.  A snapshot is what GitLab answers    *)
(* for one merge request: tree (paths of the source branch), changes       *)
(* (new_path of each change), pipeline ("none" when the merge request has  *)
(* no pipeline, else its status), approved_by (number of approvers) and    *)
(* discussions ("resolved", "unresolved", or "noflag" for a discussion     *)
(* without a resolved attribute).  An outcome is a returned value or a     *)
(* raised exception.                                                       *)
(***************************************************************************)

Ok(v) == [exc |-> FALSE, val |-> v]

Raised == [exc |-> TRUE, val |-> FALSE]

\* try: <outcome> except Exception: return <handler>
Catch(outcome, handler) == IF outcome.exc THEN Ok(handler) ELSE outcome

\* s.endswith(suffix)
EndsWith(s, suffix) ==
  /\ Len(s) >= Len(suffix)
  /\ SubSeq(s, Len(s) - Len(suffix) + 1, Len(s)) = suffix

\* s.endswith((suffix, ...))
EndsWithAny(s, suffixes) == \E suffix \in suffixes : EndsWith(s, suffix)

\* s.startswith(prefix)
StartsWith(s, prefix) ==
  /\ Len(s) >= Len(prefix)
  /\ SubSeq(s, 1, Len(prefix)) = prefix

RECURSIVE Strip(_, _)
\* s.strip(ch)
Strip(s, ch) ==
  IF s # "" /\ SubSeq(s, 1, 1) = ch THEN Strip(SubSeq(s, 2, Len(s)), ch)
  ELSE IF s # "" /\ SubSeq(s, Len(s), Len(s)) = ch THEN Strip(SubSeq(s, 1, Len(s) - 1), ch)
  ELSE s

\* the sequence's elements
Range(seq) == {seq[i] : i \in 1..Len(seq)}

required_patterns == {"src/", "tests/", "__init__.py", "requirements.txt", "README.md"}

\* repository_tree(ref=source_branch, path=path, recursive=True): the paths below path
TreeUnder(tree, path) == {f \in Range(tree) : StartsWith(f, path \o "/")}

check_structure_progress(snap, fails) ==
  Catch(IF fails THEN Raised
        ELSE Ok(\A pattern \in required_patterns :
                  \E f \in Range(snap.tree) : EndsWith(f, Strip(pattern, "/"))),
        FALSE)

\* a check_implementation_progress without its try/except
check_implementation_progress_nocatch(snap, fails) ==
  IF fails THEN Raised
  ELSE Ok({f \in Range(snap.changes) : EndsWithAny(f, {".py", ".js", ".ts", ".java"})} # {})

check_implementation_progress(snap, fails) ==
  Catch(IF fails THEN Raised
        ELSE LET implementation_files ==
                   {f \in Range(snap.changes) : EndsWithAny(f, {".py", ".js", ".ts", ".java"})}
             IN  Ok(implementation_files # {}),
        FALSE)

check_test_progress(snap, fails) ==
  Catch(IF fails THEN Raised
        ELSE LET test_files == {f \in TreeUnder(snap.tree, "tests") : StartsWith(f, "test_")}
             IN  IF snap.pipeline # "none"
                 THEN Ok(test_files # {} /\ snap.pipeline = "success")
                 ELSE Ok(test_files # {}),
        FALSE)

check_documentation_progress(snap, fails) ==
  Catch(IF fails THEN Raised
        ELSE LET doc_files ==
                   {f \in Range(snap.tree) : EndsWithAny(f, {".md", ".rst", ".txt"})}
                 python_files == {f \in Range(snap.changes) : EndsWith(f, ".py")}
             IN  Ok(doc_files # {} /\ python_files # {}),
        FALSE)

\* a check_review_progress that takes a discussion without a resolved
\* attribute to be unresolved
check_review_progress_flagless_counts(snap, fails) ==
  Catch(IF fails THEN Raised
        ELSE LET has_approvals == snap.approved_by > 0
                 all_discussions_resolved ==
                   \A i \in 1..Len(snap.discussions) : snap.discussions[i] = "resolved"
             IN  Ok(has_approvals /\ all_discussions_resolved),
        FALSE)

check_review_progress(snap, fails) ==
  Catch(IF fails THEN Raised
        ELSE LET has_approvals == snap.approved_by > 0
                 all_discussions_resolved ==
                   \A i \in 1..Len(snap.discussions) :
                     snap.discussions[i] # "noflag" => snap.discussions[i] = "resolved"
             IN  Ok(has_approvals /\ all_discussions_resolved),
        FALSE)

\* the five checks that derive a signal, in the order update_progress calls them
Checks == {"setup", "implementation", "tests", "documentation", "review"}

\* the outcome of each check call made by update_progress
CheckOutcomes(snap, failing) ==
  [c \in Checks |->
     CASE c = "setup"          -> check_structure_progress(snap, c \in failing)
       [] c = "implementation" -> check_implementation_progress(snap, c \in failing)
       [] c = "tests"          -> check_test_progress(snap, c \in failing)
       [] c = "documentation"  -> check_documentation_progress(snap, c \in failing)
       [] c = "review"         -> check_review_progress(snap, c \in failing)]

(***************************************************************************)
(* update_progress: one reconciliation cycle on a description.  The result *)
(* holds the returned dict, the description GitLab holds afterwards and    *)
(* the number of mr.save() calls made.                                     *)
(***************************************************************************)

\* what update_progress did besides returning: the stored state it parsed, the
\* signals the checks returned, the description GitLab holds afterwards, the
\* number of mr.save() calls and whether the save raised
Cycle(result, description, current_progress, new_progress, saves, saveFailed) ==
  [result      |-> result,
   description |-> description,
   stored      |-> current_progress,
   collected   |-> [c \in Checks |-> new_progress[c]],
   saves       |-> saves,
   saveFailed  |-> saveFailed]

\* an update_progress that takes acceptance to be unmet instead of keeping it
update_progress_drop_acceptance(description, snap, failing, saveFails) ==
  LET current_progress == _parse_progress_section(description)
      outcomes == CheckOutcomes(snap, failing)
      new_progress ==
        [it \in ItemSet |-> IF it = "acceptance" THEN FALSE ELSE outcomes[it].val]
  IN  IF \E c \in Checks : outcomes[c].exc
      THEN Cycle(EmptyDict, description, current_progress, new_progress, 0, FALSE)
      ELSE IF new_progress # current_progress
      THEN IF saveFails
           THEN Cycle(EmptyDict, description, current_progress, new_progress, 1, TRUE)
           ELSE Cycle(new_progress, _update_progress_section(description, new_progress),
                      current_progress, new_progress, 1, FALSE)
      ELSE Cycle(new_progress, description, current_progress, new_progress, 0, FALSE)

\* an update_progress that saves once for the description and once more
\* before it returns
update_progress_save_twice(description, snap, failing, saveFails) ==
  LET current_progress == _parse_progress_section(description)
      outcomes == CheckOutcomes(snap, failing)
      new_progress ==
        [it \in ItemSet |->
           IF it = "acceptance" THEN current_progress["acceptance"]
           ELSE outcomes[it].val]
  IN  IF \E c \in Checks : outcomes[c].exc
      THEN Cycle(EmptyDict, description, current_progress, new_progress, 0, FALSE)
      ELSE IF new_progress # current_progress
      THEN IF saveFails
           THEN Cycle(EmptyDict, description, current_progress, new_progress, 1, TRUE)
           ELSE Cycle(new_progress, _update_progress_section(description, new_progress),
                      current_progress, new_progress, 2, FALSE)
      ELSE Cycle(new_progress, description, current_progress, new_progress, 0, FALSE)

\* an update_progress that writes back only to a description with a section
update_progress_section_only(description, snap, failing, saveFails) ==
  LET current_progress == _parse_progress_section(description)
      outcomes == CheckOutcomes(snap, failing)
      new_progress ==
        [it \in ItemSet |->
           IF it = "acceptance" THEN current_progress["acceptance"]
           ELSE outcomes[it].val]
  IN  IF \E c \in Checks : outcomes[c].exc
      THEN Cycle(EmptyDict, description, current_progress, new_progress, 0, FALSE)
      ELSE IF new_progress # current_progress /\ Find(description, Header, 0) # -1
      THEN IF saveFails
           THEN Cycle(EmptyDict, description, current_progress, new_progress, 1, TRUE)
           ELSE Cycle(new_progress, _update_progress_section(description, new_progress),
                      current_progress, new_progress, 1, FALSE)
      ELSE Cycle(new_progress, description, current_progress, new_progress, 0, FALSE)

update_progress(description, snap, failing, saveFails) ==
  LET current_progress == _parse_progress_section(description)
      outcomes == CheckOutcomes(snap, failing)
      new_progress ==
        [it \in ItemSet |->
           IF it = "acceptance" THEN current_progress["acceptance"]
           ELSE outcomes[it].val]
  IN  IF \E c \in Checks : outcomes[c].exc
      THEN Cycle(EmptyDict, description, current_progress, new_progress, 0, FALSE)
      ELSE IF new_progress # current_progress
      THEN IF saveFails
           THEN Cycle(EmptyDict, description, current_progress, new_progress, 1, TRUE)
           ELSE Cycle(new_progress, _update_progress_section(description, new_progress),
                      current_progress, new_progress, 1, FALSE)
      ELSE Cycle(new_progress, description, current_progress, new_progress, 0, FALSE)

(***************************************************************************)
(* Descriptions the codec is exercised on.                                 *)
(***************************************************************************)

\* bound: number of free-form lines a hand-edited checklist section may hold
MaxLines == 2

\* text before the section
Prefixes == {"", "# Setup notes\n\n"}

\* text after the section (as in generate_mr_description, or nothing)
Suffixes == {"", "## Notes\nCheck test coverage\n"}

\* lines a human may write into the section
FreeLines == {"- [x] Initial setup complete",
              "- [x] Core functionality implemented",
              "- [X] Unit test documentation",
              "- [ ] Code reviewed",
              "- [x] Acceptance criteria met",
              "### Details",
              "- [x] Code reviewed, see ## Notes"}

RECURSIVE JoinLines(_)
\* each line followed by a newline
JoinLines(lines) ==
  IF lines = <<>> THEN "" ELSE Head(lines) \o "\n" \o JoinLines(Tail(lines))

\* sections written by hand: the header and up to MaxLines free lines
FreeLineSeqs == UNION {[1..n -> FreeLines] : n \in 0..MaxLines}

FreeSections == {Header \o "\n" \o JoinLines(ls) \o "\n" : ls \in FreeLineSeqs}

\* sections as generate_mr_description and _update_progress_section write them
CanonicalSections == {RenderSection(p) : p \in ProgressStates}

\* descriptions with a valid checklist section
CanonicalDocs ==
  {pre \o sec \o suf : pre \in Prefixes, sec \in CanonicalSections, suf \in Suffixes}

\* descriptions with a checklist header
SectionDocs ==
  CanonicalDocs \cup
  {pre \o sec \o suf : pre \in Prefixes, sec \in FreeSections, suf \in Suffixes}

\* descriptions without a checklist header
PlainDocs ==
  {pre \o suf : pre \in Prefixes, suf \in Suffixes}
    \cup {"## progress tracking\n- [ ] Initial setup complete\n"}

CodecDocs == SectionDocs \cup PlainDocs

HasSection(description) == Find(description, Header, 0) # -1

(***************************************************************************)
(* StatusMonitor: the tracked set.  active_mrs is a dict in insertion      *)
(* order: a sequence of [mr_key, info], info being the identity of the     *)
(* entry's dict object; mr_infos holds the objects.                        *)
(***************************************************************************)

\* mr_key = f"{project_id}:{mr_iid}"
MrKey(project_id, mr_iid) == ToString(project_id) \o ":" \o ToString(mr_iid)

\* the keys of the dict
KeysOf(active) == {active[i].mr_key : i \in 1..Len(active)}

\* del active[mr_key]
DictDel(active, mr_key) == SelectSeq(active, LAMBDA e : e.mr_key # mr_key)

\* a slot of mr_infos that holds no object yet
NoInfo == [project_id |-> 0, mr_iid |-> 0, issue_key |-> "", last_update |-> 0]

\* the tracked set: the dict, the objects and the number of objects created
Registry(active, infos, allocated) ==
  [active_mrs |-> active, mr_infos |-> infos, allocated |-> allocated]

\* an add_merge_request that stores a new dict under a key already tracked
add_merge_request_overwrite(reg, project_id, mr_iid, issue_key, time) ==
  LET mr_key == MrKey(project_id, mr_iid)
      info   == reg.allocated + 1
  IN  Registry(IF mr_key \notin KeysOf(reg.active_mrs)
               THEN Append(reg.active_mrs, [mr_key |-> mr_key, info |-> info])
               ELSE [i \in 1..Len(reg.active_mrs) |->
                       IF reg.active_mrs[i].mr_key = mr_key
                       THEN [mr_key |-> mr_key, info |-> info]
                       ELSE reg.active_mrs[i]],
               [reg.mr_infos EXCEPT ![info] =
                  [project_id |-> project_id, mr_iid |-> mr_iid,
                   issue_key |-> issue_key, last_update |-> time]],
               info)

add_merge_request(reg, project_id, mr_iid, issue_key, time) ==
  LET mr_key == MrKey(project_id, mr_iid)
      info   == reg.allocated + 1
  IN  IF mr_key \notin KeysOf(reg.active_mrs)
      THEN Registry(Append(reg.active_mrs, [mr_key |-> mr_key, info |-> info]),
                    [reg.mr_infos EXCEPT ![info] =
                       [project_id |-> project_id, mr_iid |-> mr_iid,
                        issue_key |-> issue_key, last_update |-> time]],
                    info)
      ELSE reg

remove_merge_request(active, project_id, mr_iid) ==
  LET mr_key == MrKey(project_id, mr_iid)
  IN  IF mr_key \in KeysOf(active) THEN DictDel(active, mr_key) ELSE active

\* agent.update_merge_request_progress: {} when the tracker cannot be built
update_merge_request_progress(description, call) ==
  IF call.trackerFails
  THEN Cycle(EmptyDict, description, DefaultProgress, DefaultProgress, 0, FALSE)
  ELSE update_progress(description, call.snap, call.failing, call.saveFails)

\* what update_merge_request_status did: the dict it returns, the description
\* GitLab holds afterwards, the lifecycle state it saw ("failed" when the query
\* raised) and whether it called remove_merge_request
Status(progress, description, observed, remove) ==
  [progress |-> progress, description |-> description, observed |-> observed,
   remove |-> remove]

\* an update_merge_request_status without its try/except
update_merge_request_status_nocatch(did, lifecycle) ==
  IF lifecycle = "failed"
  THEN [exc |-> TRUE, val |-> Status(EmptyDict, did.description, "failed", FALSE)]
  ELSE Ok(Status(did.result, did.description, lifecycle,
                 lifecycle \in {"merged", "closed"}))

\* an update_merge_request_status that takes only 'merged' to be terminal
update_merge_request_status_merged_only(did, lifecycle) ==
  IF lifecycle = "failed"
  THEN Ok(Status(EmptyDict, did.description, "failed", FALSE))
  ELSE Ok(Status(did.result, did.description, lifecycle, lifecycle = "merged"))

\* an update_merge_request_status that gives up an entry it cannot read
update_merge_request_status_drop_unread(did, lifecycle) ==
  IF lifecycle = "failed"
  THEN Ok(Status(EmptyDict, did.description, "failed", TRUE))
  ELSE Ok(Status(did.result, did.description, lifecycle,
                 lifecycle \in {"merged", "closed"}))

\* update_merge_request_status after its first statement: did is what
\* agent.update_merge_request_progress did, lifecycle what mr.state answers
update_merge_request_status(did, lifecycle) ==
  LET body == IF lifecycle = "failed"
              THEN [exc |-> TRUE,
                    val |-> Status(EmptyDict, did.description, "failed", FALSE)]
              ELSE Ok(Status(did.result, did.description, lifecycle,
                             lifecycle \in {"merged", "closed"}))
  IN  IF body.exc
      THEN Ok(Status(EmptyDict, body.val.description, body.val.observed, FALSE))
      ELSE body

\* JiraGitlabAgent.update_jira_status: the status the issue is transitioned
\* to, "none" when no transition is made.  jira is what the configuration and
\* Jira answer: "nomapping", "failed" (a Jira call raises), "notransition"
\* (no transition leads to the mapped status) or "ok"
\* an update_jira_status that does not look at the update_status setting
agent_update_jira_status_always(status, update_status, jira) ==
  IF jira = "nomapping" THEN "none"
  ELSE IF jira = "failed" THEN "none"
  ELSE IF jira = "ok" THEN status
  ELSE "none"

agent_update_jira_status(status, update_status, jira) ==
  IF ~update_status THEN "none"
  ELSE IF jira = "nomapping" THEN "none"
  ELSE IF jira = "failed" THEN "none"
  ELSE IF jira = "ok" THEN status
  ELSE "none"

\* an update_jira_status that counts setup as work in progress
update_jira_status_setup_counts(progress, update_status, jira) ==
  LET new_status ==
        IF Get(progress, "acceptance") THEN "done"
        ELSE IF Get(progress, "review") THEN "in_review"
        ELSE IF \E key \in {"setup", "implementation", "tests", "documentation"} :
                  Get(progress, key)
             THEN "in_progress"
        ELSE "to_do"
  IN  Ok([status |-> new_status,
          transition |-> agent_update_jira_status(new_status, update_status, jira)])

\* StatusMonitor.update_jira_status: the status passed to the agent and the
\* transition made
update_jira_status(progress, update_status, jira) ==
  LET new_status ==
        IF Get(progress, "acceptance") THEN "done"
        ELSE IF Get(progress, "review") THEN "in_review"
        ELSE IF \E key \in {"implementation", "tests", "documentation"} : Get(progress, key)
             THEN "in_progress"
        ELSE "to_do"
  IN  Catch(Ok([status |-> new_status,
                transition |-> agent_update_jira_status(new_status, update_status, jira)]),
            [status |-> new_status, transition |-> "none"])

\* a stamp that stores the entry back under its key
StampLastUpdate_reinsert(reg, item, current_time) ==
  Registry(IF item.mr_key \in KeysOf(reg.active_mrs) THEN reg.active_mrs
           ELSE Append(reg.active_mrs, item),
           [reg.mr_infos EXCEPT ![item.info].last_update = current_time],
           reg.allocated)

\* mr_info['last_update'] = current_time, on the object the loop holds
StampLastUpdate(reg, item, current_time) ==
  Registry(reg.active_mrs,
           [reg.mr_infos EXCEPT ![item.info].last_update = current_time],
           reg.allocated)

\* the dict objects after the step: an object that neither active_mrs nor the
\* loop's list and loop variable refer to is freed
Live(infos, active, its, it) ==
  LET held == {active[i].info : i \in 1..Len(active)}
                \cup {its[i].info : i \in 1..Len(its)} \cup {it.info}
  IN  [i \in DOMAIN infos |-> IF i \in held THEN infos[i] ELSE NoInfo]

(***************************************************************************)
(* Merge requests and what GitLab answers about them.                      *)
(***************************************************************************)

ProjectIds == {1}

MrIids == {1, 2}

MrKeys == {MrKey(p, m) : p \in ProjectIds, m \in MrIids}

\* the description generate_mr_description writes: every box unchecked
TemplateDoc == "# PROJ-1\n\n" \o RenderSection(DefaultProgress) \o "## Notes\n"

\* the template after a human checked the acceptance box
AcceptedDoc ==
  "# PROJ-1\n\n" \o RenderSection([DefaultProgress EXCEPT !["acceptance"] = TRUE])
    \o "## Notes\n"

\* a description without a checklist section
PlainDoc == "# PROJ-2\nNo checklist\n"

\* descriptions a human may give a tracked merge request
TrackerDocs == {TemplateDoc, AcceptedDoc, PlainDoc}

FullTree == <<"src", "src/__init__.py", "src/app.py", "tests", "tests/test_app.py",
              "requirements.txt", "README.md">>

\* nothing done yet
NothingDone ==
  [tree |-> <<>>, changes |-> <<>>, pipeline |-> "none", approved_by |-> 0,
   discussions |-> <<>>]

\* a script changed on a structured branch, pipeline failed, an open thread
ScriptOnly ==
  [tree |-> FullTree, changes |-> <<"web/app.js">>, pipeline |-> "failed",
   approved_by |-> 0, discussions |-> <<"unresolved">>]

\* a code change approved before the branch has its structure
ApprovedEarly ==
  [tree |-> <<"src/app.py">>, changes |-> <<"src/app.py">>, pipeline |-> "none",
   approved_by |-> 1, discussions |-> <<"resolved", "noflag">>]

\* everything in place and approved
AllDone ==
  [tree |-> FullTree, changes |-> <<"src/app.py">>, pipeline |-> "success",
   approved_by |-> 2, discussions |-> <<"resolved">>]

\* what GitLab answers in the reconciliation cycles of the tracker
TrackerSnapshots == {NothingDone, ScriptOnly, ApprovedEarly, AllDone}

\* what GitLab answers in the cycles monitor_loop runs
MonitorSnapshots == {NothingDone, AllDone}

\* bound: number of update_progress calls in a run of the tracker
MaxCycles == 2

\* the checks whose collaborator call raises in one cycle: none, any one of
\* the five, or all of them
FailingSets == {{}} \cup {{c} : c \in Checks} \cup {Checks}

(***************************************************************************)
(* State.                                                                  *)
(***************************************************************************)

\* callers register merge requests for these issues
IssueKeys == {"PROJ-1", "PROJ-2"}

\* bound: number of add_merge_request calls that create an entry
MaxAdds == 2

\* bound: the clock stops here
MaxTime == 2

\* the update_interval argument of monitor_loop, in units of SleepTime
update_interval == 2

\* time.sleep(60): one unit of the clock
SleepTime == 1

VARIABLES
  cdoc,         \* codec: the description argument
  cop,          \* codec: the call made ("none" before any)
  cstate,       \* codec: the progress argument of _update_progress_section
  cparsed,      \* codec: result of _parse_progress_section
  cout,         \* codec: result of _update_progress_section
  description,  \* mr.description as GitLab holds it, per merge request
  cycle,        \* the last update_progress call: its inputs and what it did
  active_mrs,   \* StatusMonitor.active_mrs
  mr_infos,     \* the dict objects active_mrs and the loop refer to
  allocated,    \* number of dict objects created
  now,          \* time.time()
  pc,           \* where monitor_loop is
  current_time, \* monitor_loop: current_time
  items,        \* monitor_loop: what is left of list(self.active_mrs.items())
  item,         \* monitor_loop: (mr_key, mr_info) of the iteration
  progress,     \* monitor_loop: progress
  entry,        \* what the cycle of the current iteration did
  pass,         \* what the current pass did
  update_status,\* config: features.jira_integration.update_status
  labels,       \* self.config['features']['gitlab_duo']: its 'labels' list
  last_call     \* the last call of a caller: what was asked and what it did

codecVars == <<cdoc, cop, cstate, cparsed, cout>>

trackerVars == <<description, cycle>>

registryVars == <<active_mrs, mr_infos, allocated>>

loopVars == <<pc, current_time, items, item, progress, entry, pass>>

monitorVars == <<active_mrs, mr_infos, allocated, now, pc, current_time, items, item,
                 progress, entry, pass, update_status>>

agentVars == <<labels, last_call>>

vars == <<cdoc, cop, cstate, cparsed, cout, description, cycle, active_mrs, mr_infos,
          allocated, now, pc, current_time, items, item, progress, entry, pass,
          update_status, labels, last_call>>

NoValue == "none"

\* no dict yet
NoProgress == <<>>

NoSnapshot ==
  [tree |-> <<>>, changes |-> <<>>, pipeline |-> "none", approved_by |-> 0,
   discussions |-> <<>>]

\* before any update_progress call (mr_key is "")
NoCycle ==
  [mr_key |-> "", n |-> 0, repeat |-> FALSE, snap |-> NoSnapshot, failing |-> {},
   did |-> Cycle(EmptyDict, "", DefaultProgress, DefaultProgress, 0, FALSE)]

\* no iteration yet
NoItem == [mr_key |-> "", info |-> 0]

\* before the cycle of an iteration did anything
NoEntry ==
  [mr_key |-> "", observed |-> "none", removed |-> FALSE, pushed |-> "none",
   transition |-> "none", stamped |-> FALSE, retry |-> FALSE]

\* a pass that has not met any entry
NoPass == [due |-> {}, processed |-> {}, failed |-> {}, unread |-> {}]

\* the monitor as constructed, monitor_loop not started
MonitorIdle ==
  /\ active_mrs = <<>>
  /\ mr_infos = [i \in 1..(MaxAdds + 1) |-> NoInfo]
  /\ allocated = 0
  /\ now = 0
  /\ pc = "scan"
  /\ current_time = 0
  /\ items = <<>>
  /\ item = NoItem
  /\ progress = EmptyDict
  /\ entry = NoEntry
  /\ pass = NoPass

\* the 'labels' entry of the gitlab_duo configuration: absent, or a list
ConfigLabels(present, list) == [present |-> present, list |-> list]

\* no call made yet
NoCall == [op |-> "none", n |-> 0, step |-> "idle", pushes |-> <<>>]

\* the agent as constructed, nothing asked of it
AgentIdle ==
  /\ labels = ConfigLabels(FALSE, <<>>)
  /\ last_call = NoCall

CodecIdle ==
  /\ cdoc = ""
  /\ cop = "none"
  /\ cstate = NoProgress
  /\ cparsed = NoProgress
  /\ cout = NoValue

(***************************************************************************)
(* The codec applied to a description (pure functions).                    *)
(***************************************************************************)

CodecInit ==
  /\ cdoc \in CodecDocs
  /\ cop = "none"
  /\ cstate = NoProgress
  /\ cparsed = NoProgress
  /\ cout = NoValue
  /\ description = [k \in MrKeys |-> PlainDoc]
  /\ cycle = NoCycle
  /\ MonitorIdle
  /\ AgentIdle
  /\ update_status = FALSE

\* progress = _parse_progress_section(description)
CodecParse ==
  /\ cop = "none"
  /\ cop' = "parse"
  /\ cparsed' = _parse_progress_section(cdoc)
  /\ UNCHANGED <<cdoc, cstate, cout>>
  /\ UNCHANGED trackerVars
  /\ UNCHANGED monitorVars
  /\ UNCHANGED agentVars

\* _update_progress_section(description, progress) for any progress
CodecUpdate ==
  /\ cop = "none"
  /\ \E p \in ProgressStates :
       /\ cstate' = p
       /\ cout' = _update_progress_section(cdoc, p)
  /\ cop' = "update"
  /\ UNCHANGED <<cdoc, cparsed>>
  /\ UNCHANGED trackerVars
  /\ UNCHANGED monitorVars
  /\ UNCHANGED agentVars

\* _update_progress_section(text, _parse_progress_section(text))
CodecRoundTrip ==
  /\ cop = "none"
  /\ cparsed' = _parse_progress_section(cdoc)
  /\ cstate' = cparsed'
  /\ cout' = _update_progress_section(cdoc, cparsed')
  /\ cop' = "roundtrip"
  /\ UNCHANGED cdoc
  /\ UNCHANGED trackerVars
  /\ UNCHANGED monitorVars
  /\ UNCHANGED agentVars

\* the states rendered and read back: nothing checked, one item checked,
\* everything checked
RoundTripStates ==
  {DefaultProgress} \cup {[DefaultProgress EXCEPT ![it] = TRUE] : it \in ItemSet}
    \cup {[it \in ItemSet |-> TRUE]}

\* _parse_progress_section(_update_progress_section(description, progress))
CodecRenderParse ==
  /\ cop = "none"
  /\ \E p \in RoundTripStates :
       \E out \in {_update_progress_section(cdoc, p)} :
         /\ cstate' = p
         /\ cout' = out
         /\ cparsed' = _parse_progress_section(out)
  /\ cop' = "reparse"
  /\ UNCHANGED cdoc
  /\ UNCHANGED trackerVars
  /\ UNCHANGED monitorVars
  /\ UNCHANGED agentVars

CodecNext == CodecParse \/ CodecUpdate \/ CodecRoundTrip \/ CodecRenderParse

SpecCodec == CodecInit /\ [][CodecNext]_vars

(***************************************************************************)
(* Reconciliation cycles of ProgressTracker on the tracked merge requests. *)
(***************************************************************************)

\* the merge request the cycles run on
TrackerKeys == {MrKey(1, 1)}

TrackerInit ==
  /\ CodecIdle
  /\ description \in {d \in [MrKeys -> TrackerDocs] : \A k \in MrKeys \ TrackerKeys : d[k] = PlainDoc}
  /\ cycle = NoCycle
  /\ MonitorIdle
  /\ AgentIdle
  /\ update_status = FALSE

\* whether a cycle on k collects the signals that the previous call, a completed
\* cycle on k with no edit since, collected
RepeatsPrevious(k, did) ==
  /\ cycle.mr_key = k
  /\ cycle.did.result # EmptyDict
  /\ did.collected = cycle.did.collected

\* ProgressTracker(gitlab, project_id, mr_iid).update_progress()
TrackerCycle(k) ==
  /\ cycle.n < MaxCycles
  /\ \E snap \in TrackerSnapshots, failing \in FailingSets, saveFails \in BOOLEAN :
       \E did \in {update_progress(description[k], snap, failing, saveFails)} :
         /\ cycle' = [mr_key |-> k, n |-> cycle.n + 1, repeat |-> RepeatsPrevious(k, did),
                      snap |-> snap, failing |-> failing, did |-> did]
         /\ description' = [description EXCEPT ![k] = did.description]
  /\ UNCHANGED codecVars
  /\ UNCHANGED monitorVars
  /\ UNCHANGED agentVars

\* a human edits the description (for instance checks the acceptance box)
HumanEdit(k) ==
  /\ \E d \in TrackerDocs \ {description[k]} :
       description' = [description EXCEPT ![k] = d]
  /\ cycle' = [NoCycle EXCEPT !.n = cycle.n]
  /\ UNCHANGED codecVars
  /\ UNCHANGED monitorVars
  /\ UNCHANGED agentVars

TrackerNext == \E k \in TrackerKeys : TrackerCycle(k) \/ HumanEdit(k)

SpecTracker == TrackerInit /\ [][TrackerNext]_vars

(***************************************************************************)
(* The signal checks applied to what GitLab answers (pure functions).      *)
(***************************************************************************)

\* what GitLab may answer for a merge request
SignalSnapshots ==
  [tree        : {<<>>, <<"README.md">>, <<"tests/test_a.py">>, FullTree},
   changes     : {<<>>, <<"src/app.py">>, <<"src/app.js">>, <<"README.md">>},
   pipeline    : {"none", "success", "failed"},
   approved_by : {0, 1, 2},
   discussions : {<<>>, <<"resolved">>, <<"unresolved">>, <<"noflag">>,
                  <<"resolved", "noflag">>, <<"resolved", "unresolved">>}]

SignalInit ==
  /\ CodecIdle
  /\ description = [k \in MrKeys |-> PlainDoc]
  /\ cycle \in {[NoCycle EXCEPT !.snap = snap] : snap \in SignalSnapshots}
  /\ MonitorIdle
  /\ AgentIdle
  /\ update_status = FALSE

\* the five check_*_progress calls of update_progress
SignalCollect ==
  /\ cop = "none"
  /\ cop' = "collect"
  /\ \E outcomes \in {CheckOutcomes(cycle.snap, cycle.failing)} :
       cycle' = [cycle EXCEPT !.did.collected = [c \in Checks |-> outcomes[c].val]]
  /\ UNCHANGED <<cdoc, cstate, cparsed, cout, description>>
  /\ UNCHANGED monitorVars
  /\ UNCHANGED agentVars

SignalNext == SignalCollect

SpecSignals == SignalInit /\ [][SignalNext]_vars

(***************************************************************************)
(* StatusMonitor: callers register and remove merge requests while         *)
(* monitor_loop runs.                                                      *)
(***************************************************************************)

\* the answers the reconciliation of one update_merge_request_status call gets
MonitorCalls ==
  [trackerFails : {TRUE}, snap : {NothingDone}, failing : {{}}, saveFails : {FALSE}]
  \cup
  [trackerFails : {FALSE}, snap : MonitorSnapshots, failing : {{}}, saveFails : BOOLEAN]

\* what mr.state answers: a state, or "failed" when the merge request cannot
\* be read
Lifecycles == {"failed", "opened", "merged", "closed"}

\* what the configuration and Jira answer to one status push
JiraAnswers == {"nomapping", "failed", "notransition", "ok"}

Init ==
  /\ CodecIdle
  /\ description = [k \in MrKeys |-> IF k = MrKey(1, 1) THEN TemplateDoc ELSE PlainDoc]
  /\ cycle = NoCycle
  /\ MonitorIdle
  /\ AgentIdle
  /\ update_status \in BOOLEAN

TheRegistry == Registry(active_mrs, mr_infos, allocated)

\* a caller: monitor.add_merge_request(project_id, mr_iid, issue_key)
AddMergeRequest(project_id, mr_iid, issue_key) ==
  LET reg == add_merge_request(TheRegistry, project_id, mr_iid, issue_key, now)
  IN  /\ allocated < MaxAdds
      /\ active_mrs' = reg.active_mrs
      /\ mr_infos' = reg.mr_infos
      /\ allocated' = reg.allocated
      /\ UNCHANGED <<now, update_status>>
      /\ UNCHANGED loopVars
      /\ UNCHANGED codecVars
      /\ UNCHANGED trackerVars
      /\ UNCHANGED agentVars

\* a caller: monitor.remove_merge_request(project_id, mr_iid)
RemoveMergeRequest(project_id, mr_iid) ==
  /\ active_mrs' = remove_merge_request(active_mrs, project_id, mr_iid)
  /\ mr_infos' = Live(mr_infos, active_mrs', items, item)
  /\ UNCHANGED <<allocated, now, update_status>>
  /\ UNCHANGED loopVars
  /\ UNCHANGED codecVars
  /\ UNCHANGED trackerVars
  /\ UNCHANGED agentVars

\* a loop that takes every entry to be due
IsDue_always(infos, info, time) == time - infos[info].last_update >= 0

\* monitor_loop: whether an entry is due
IsDue(infos, info, time) == time - infos[info].last_update >= update_interval

RECURSIVE SkipNotDue(_, _, _)
\* the for loop passing over the entries that are not due
SkipNotDue(its, infos, time) ==
  IF its = <<>> THEN <<>>
  ELSE IF IsDue(infos, Head(its).info, time) THEN its
  ELSE SkipNotDue(Tail(its), infos, time)

\* the for loop moves on to the next due entry of its, or to the sleep
ForNext(its, infos, time) ==
  LET rest == SkipNotDue(its, infos, time)
  IN  IF rest = <<>>
      THEN /\ pc' = "sleep"
           /\ items' = <<>>
           /\ UNCHANGED item
      ELSE /\ pc' = "update"
           /\ items' = Tail(rest)
           /\ item' = Head(rest)

\* monitor_loop: current_time = time.time(); list(self.active_mrs.items())
MonitorScan ==
  /\ pc = "scan"
  /\ current_time' = now
  /\ pass' = [due |-> {active_mrs[i].info : i \in
                         {j \in 1..Len(active_mrs) : IsDue(mr_infos, active_mrs[j].info, now)}},
              processed |-> {}, failed |-> {}, unread |-> pass.unread]
  /\ entry' = NoEntry
  /\ ForNext(active_mrs, mr_infos, now)
  /\ mr_infos' = Live(mr_infos, active_mrs, items', item')
  /\ UNCHANGED <<progress, now, update_status, active_mrs, allocated>>
  /\ UNCHANGED codecVars
  /\ UNCHANGED trackerVars
  /\ UNCHANGED agentVars

\* monitor_loop: progress = self.update_merge_request_status(project_id, mr_iid)
MonitorUpdate ==
  /\ pc = "update"
  /\ \E call \in MonitorCalls :
       LET info   == mr_infos[item.info]
           mr_key == MrKey(info.project_id, info.mr_iid)
       IN  \E did \in {update_merge_request_progress(description[mr_key], call)} :
           \E lifecycle \in Lifecycles :
           \E out \in {update_merge_request_status(did, lifecycle)} :
           /\ description' = [description EXCEPT ![mr_key] = out.val.description]
           /\ active_mrs' = IF out.val.remove
                            THEN remove_merge_request(active_mrs, info.project_id, info.mr_iid)
                            ELSE active_mrs
           /\ progress' = out.val.progress
           /\ entry' = [NoEntry EXCEPT !.mr_key = item.mr_key,
                                       !.observed = out.val.observed,
                                       !.removed = out.val.remove,
                                       !.retry = item.info \in pass.unread]
           /\ pass' = [pass EXCEPT
                         !.failed = IF out.val.progress = EmptyDict
                                    THEN @ \cup {item.info} ELSE @,
                         !.unread = IF out.val.observed = "failed"
                                    THEN @ \cup {item.info} ELSE @ \ {item.info}]
           /\ pc' = IF out.exc THEN "raised" ELSE "push"
  /\ UNCHANGED <<mr_infos, allocated, current_time, items, item, now, update_status, cycle>>
  /\ UNCHANGED codecVars
  /\ UNCHANGED agentVars

\* monitor_loop: if progress: self.update_jira_status(issue_key, progress);
\* then mr_info['last_update'] = current_time and on to the next entry
\* (progress is dead from here on and is cleared)
\* a loop that pushes whatever the cycle returned
Pushes_always(progress_) == progress_ \in ProgressStates \cup {EmptyDict}

\* monitor_loop: if progress:
Pushes(progress_) == progress_ # EmptyDict

MonitorPush ==
  /\ pc = "push"
  /\ \E jira \in JiraAnswers :
       \E out \in {update_jira_status(progress, update_status, jira)},
          reg \in {StampLastUpdate(TheRegistry, item, current_time)} :
           IF Pushes(progress) /\ out.exc
           THEN /\ pc' = "raised"
                /\ UNCHANGED <<entry, pass, progress, items, item>>
                /\ UNCHANGED registryVars
           ELSE /\ entry' = [entry EXCEPT
                               !.pushed = IF Pushes(progress) THEN out.val.status ELSE "none",
                               !.transition = IF Pushes(progress) THEN out.val.transition
                                              ELSE "none",
                               !.stamped = TRUE]
                /\ active_mrs' = reg.active_mrs
                /\ allocated' = reg.allocated
                /\ pass' = [pass EXCEPT
                              !.processed = @ \cup {item.info},
                              !.failed = IF Pushes(progress) /\ update_status
                                            /\ jira = "failed"
                                         THEN @ \cup {item.info} ELSE @]
                /\ progress' = EmptyDict
                /\ ForNext(items, reg.mr_infos, current_time)
                /\ mr_infos' = Live(reg.mr_infos, reg.active_mrs, items', item')
  /\ UNCHANGED <<current_time, now, update_status>>
  /\ UNCHANGED codecVars
  /\ UNCHANGED trackerVars
  /\ UNCHANGED agentVars

\* monitor_loop: time.sleep(60), then the next pass; the clock stops at limit
Sleep(limit) ==
  /\ pc = "sleep"
  /\ now + SleepTime <= limit
  /\ now' = now + SleepTime
  /\ pc' = "scan"
  /\ UNCHANGED <<current_time, items, item, progress, entry, pass, update_status>>
  /\ UNCHANGED registryVars
  /\ UNCHANGED codecVars
  /\ UNCHANGED trackerVars
  /\ UNCHANGED agentVars

MonitorSleep == Sleep(MaxTime)

Next ==
  \/ \E project_id \in ProjectIds, mr_iid \in MrIids, issue_key \in IssueKeys :
       AddMergeRequest(project_id, mr_iid, issue_key)
  \/ \E project_id \in ProjectIds, mr_iid \in MrIids :
       RemoveMergeRequest(project_id, mr_iid)
  \/ MonitorScan
  \/ MonitorUpdate
  \/ MonitorPush
  \/ MonitorSleep

Spec == Init /\ [][Next]_vars

(***************************************************************************)
(* monitor_loop with the stop signal: Ctrl-C raises KeyboardInterrupt at   *)
(* whatever point the loop has reached.                                    *)
(***************************************************************************)

\* except KeyboardInterrupt: the loop logs and returns
KeyboardInterrupt ==
  /\ pc \in {"scan", "update", "push", "sleep"}
  /\ pc' = "stopped"
  /\ UNCHANGED <<now, current_time, items, item, progress, entry, pass, update_status>>
  /\ UNCHANGED registryVars
  /\ UNCHANGED codecVars
  /\ UNCHANGED trackerVars
  /\ UNCHANGED agentVars

InterruptNext == Next \/ KeyboardInterrupt

SpecInterrupt == Init /\ [][InterruptNext]_vars

(***************************************************************************)
(* The monitor used by one caller: merge requests are registered, then     *)
(* monitor_loop runs and nothing else touches active_mrs.                  *)
(***************************************************************************)

\* bound: the clock of a run of the loop on its own
MaxLoopTime == 4

\* monitor.add_merge_request(project_id, mr_iid, issue_key) before
\* monitor.monitor_loop() is called
Register(project_id, mr_iid, issue_key) ==
  /\ pc = "scan"
  /\ now = 0
  /\ AddMergeRequest(project_id, mr_iid, issue_key)

LoopSleep == Sleep(MaxLoopTime)

LoopNext ==
  \/ \E project_id \in ProjectIds, mr_iid \in MrIids, issue_key \in IssueKeys :
       Register(project_id, mr_iid, issue_key)
  \/ MonitorScan
  \/ MonitorUpdate
  \/ MonitorPush
  \/ LoopSleep

SpecLoop == Init /\ [][LoopNext]_vars

(***************************************************************************)
(* The tracked set on its own: callers add and remove merge requests as    *)
(* time passes; monitor_loop is not running.                               *)
(***************************************************************************)

RegistryInit ==
  /\ CodecIdle
  /\ description = [k \in MrKeys |-> PlainDoc]
  /\ cycle = NoCycle
  /\ MonitorIdle
  /\ AgentIdle
  /\ update_status = FALSE

\* monitor.add_merge_request(project_id, mr_iid, issue_key)
RegistryAdd(project_id, mr_iid, issue_key) ==
  /\ allocated < MaxAdds \/ MrKey(project_id, mr_iid) \in KeysOf(active_mrs)
  /\ \E reg \in {add_merge_request(TheRegistry, project_id, mr_iid, issue_key, now)} :
       /\ active_mrs' = reg.active_mrs
       /\ mr_infos' = reg.mr_infos
       /\ allocated' = reg.allocated
  /\ last_call' = [op |-> "add", mr_key |-> MrKey(project_id, mr_iid),
                   issue_key |-> issue_key, time |-> now,
                   tracked |-> MrKey(project_id, mr_iid) \in KeysOf(active_mrs)]
  /\ UNCHANGED <<now, update_status, labels>>
  /\ UNCHANGED loopVars
  /\ UNCHANGED codecVars
  /\ UNCHANGED trackerVars

\* monitor.remove_merge_request(project_id, mr_iid)
RegistryRemove(project_id, mr_iid) ==
  /\ active_mrs' = remove_merge_request(active_mrs, project_id, mr_iid)
  /\ mr_infos' = Live(mr_infos, active_mrs', items, item)
  /\ last_call' = [op |-> "remove", mr_key |-> MrKey(project_id, mr_iid),
                   issue_key |-> "", time |-> now,
                   tracked |-> MrKey(project_id, mr_iid) \in KeysOf(active_mrs)]
  /\ UNCHANGED <<allocated, now, update_status, labels>>
  /\ UNCHANGED loopVars
  /\ UNCHANGED codecVars
  /\ UNCHANGED trackerVars

\* time passes between two calls
RegistryTick ==
  /\ now < MaxTime
  /\ now' = now + 1
  /\ UNCHANGED registryVars
  /\ UNCHANGED <<update_status>>
  /\ UNCHANGED loopVars
  /\ UNCHANGED codecVars
  /\ UNCHANGED trackerVars
  /\ UNCHANGED agentVars

RegistryNext ==
  \/ \E project_id \in ProjectIds, mr_iid \in MrIids, issue_key \in IssueKeys :
       RegistryAdd(project_id, mr_iid, issue_key)
  \/ \E project_id \in ProjectIds, mr_iid \in MrIids :
       RegistryRemove(project_id, mr_iid)
  \/ RegistryTick

SpecRegistry == RegistryInit /\ [][RegistryNext]_vars

(***************************************************************************)
(* JiraGitlabAgent.process_jira_story, called for one story after another  *)
(* as the batch loop of run.py does, and the status push of a              *)
(* reconciliation cycle.  last_call.step is the statement the call in      *)
(* progress has reached ("idle" between calls).                            *)
(***************************************************************************)

max_retries == 3

\* bound: number of process_jira_story calls made on the agent
MaxStories == 2

\* what jira.issue answers at each attempt of one get_jira_story call: TRUE
\* when the attempt raises
FetchAnswers == [1..max_retries -> BOOLEAN]

\* a get_jira_story that gives up one attempt early
RetryAgain_early(attempt) == attempt < max_retries - 2

\* get_jira_story: if attempt < max_retries - 1
RetryAgain(attempt) == attempt < max_retries - 1

RECURSIVE Attempt(_, _, _)
\* the for loop of get_jira_story from attempt on (0-based as range gives
\* it), slept being the seconds slept so far; retry_delay is 2^attempt
Attempt(fails, attempt, slept) ==
  IF ~fails[attempt + 1]
  THEN Ok([attempts |-> attempt + 1, slept |-> slept])
  ELSE IF RetryAgain(attempt)
  THEN Attempt(fails, attempt + 1, slept + 2^attempt)
  ELSE [exc |-> TRUE, val |-> [attempts |-> attempt + 1, slept |-> slept]]

get_jira_story(fails) == Attempt(fails, 0, 0)

\* one self.update_jira_status(issue_key, status) call: what was asked, what
\* Jira answered and the transition made ("none" when none was)
Push(status, enabled, jira) ==
  [status |-> status, jira |-> jira,
   transition |-> agent_update_jira_status(status, enabled, jira)]

\* the labels entry of a configuration that has one
ConfiguredLabels == <<"duo-generated">>

\* the merge request GitLab opens, or has open, for the branch of a story
MrOf(issue_key) == IF issue_key = "PROJ-1" THEN MrKey(1, 1) ELSE MrKey(1, 2)

\* create_duo_merge_request: labels = self.config[...].get('labels', []);
\* labels.append(story_details['key']).  The list given to
\* mergerequests.create and the configuration afterwards: get returns the
\* configured list itself, or a new list when there is none
AppendKey(config_labels, issue_key) ==
  [given  |-> config_labels.list \o <<issue_key>>,
   labels |-> IF config_labels.present
              THEN ConfigLabels(TRUE, config_labels.list \o <<issue_key>>)
              ELSE config_labels]

\* what the two statuses a cycle can derive without any item set or with
\* some are pushed from
CycleStates ==
  {DefaultProgress,
   [DefaultProgress EXCEPT !["implementation"] = TRUE],
   [DefaultProgress EXCEPT !["review"] = TRUE],
   [DefaultProgress EXCEPT !["acceptance"] = TRUE]}

AgentInit ==
  /\ CodecIdle
  /\ description = [k \in MrKeys |-> PlainDoc]
  /\ cycle = NoCycle
  /\ MonitorIdle
  /\ labels \in {ConfigLabels(FALSE, <<>>), ConfigLabels(TRUE, ConfiguredLabels)}
  /\ last_call = NoCall
  /\ update_status \in BOOLEAN

\* a process_jira_story that goes on to its second step when the story could
\* not be fetched
AgentFetch_continues(issue_key) ==
  /\ last_call.step = "idle"
  /\ last_call.n < MaxStories
  /\ \E fails \in FetchAnswers :
       \E out \in {get_jira_story(fails)} :
         last_call' = [op |-> "process_jira_story", n |-> last_call.n + 1,
                       issue_key |-> issue_key, fetch |-> fails,
                       attempts |-> out.val.attempts, slept |-> out.val.slept,
                       fetched |-> ~out.exc, pushes |-> <<>>, branch |-> FALSE,
                       mr |-> "none", given |-> <<>>,
                       status |-> "",
                       step |-> "in_progress"]
  /\ UNCHANGED <<labels, update_status, now>>
  /\ UNCHANGED registryVars
  /\ UNCHANGED loopVars
  /\ UNCHANGED codecVars
  /\ UNCHANGED trackerVars

\* process_jira_story(issue_key): 1. story = self.get_jira_story(issue_key)
AgentFetch(issue_key) ==
  /\ last_call.step = "idle"
  /\ last_call.n < MaxStories
  /\ \E fails \in FetchAnswers :
       \E out \in {get_jira_story(fails)} :
         last_call' = [op |-> "process_jira_story", n |-> last_call.n + 1,
                       issue_key |-> issue_key, fetch |-> fails,
                       attempts |-> out.val.attempts, slept |-> out.val.slept,
                       fetched |-> ~out.exc, pushes |-> <<>>, branch |-> FALSE,
                       mr |-> "none", given |-> <<>>,
                       status |-> IF out.exc THEN "error" ELSE "",
                       step |-> IF out.exc THEN "idle" ELSE "in_progress"]
  /\ UNCHANGED <<labels, update_status, now>>
  /\ UNCHANGED registryVars
  /\ UNCHANGED loopVars
  /\ UNCHANGED codecVars
  /\ UNCHANGED trackerVars

\* process_jira_story: 2. self.update_jira_status(issue_key, 'in_progress')
AgentInProgress ==
  /\ last_call.step = "in_progress"
  /\ \E jira \in JiraAnswers :
       last_call' = [last_call EXCEPT
                       !.pushes = Append(@, Push("in_progress", update_status, jira)),
                       !.step = "branch"]
  /\ UNCHANGED <<labels, update_status, now>>
  /\ UNCHANGED registryVars
  /\ UNCHANGED loopVars
  /\ UNCHANGED codecVars
  /\ UNCHANGED trackerVars

\* process_jira_story: 3. self.create_gitlab_branch(project_id, branch_name,
\* base_branch), which raises when its attempts are used up
AgentBranch ==
  /\ last_call.step = "branch"
  /\ \E fails \in BOOLEAN :
       last_call' = [last_call EXCEPT
                       !.branch = ~fails,
                       !.status = IF fails THEN "error" ELSE @,
                       !.step = IF fails THEN "idle" ELSE "merge_request"]
  /\ UNCHANGED <<labels, update_status, now>>
  /\ UNCHANGED registryVars
  /\ UNCHANGED loopVars
  /\ UNCHANGED codecVars
  /\ UNCHANGED trackerVars

\* process_jira_story: 4. self.create_duo_merge_request(...), up to the merge
\* request: the open merge request of the branch is reused, or one is
\* created with the labels.  existing is "failed" when the project or its
\* open merge requests cannot be read
AgentMergeRequest ==
  /\ last_call.step = "merge_request"
  /\ \E existing \in {"failed", "open", "none"}, createFails \in BOOLEAN :
       LET appended == AppendKey(labels, last_call.issue_key)
           created  == existing = "none" /\ ~createFails
           failed   == existing = "failed" \/ (existing = "none" /\ createFails)
       IN  /\ existing # "none" => ~createFails
           /\ labels' = IF existing = "none" THEN appended.labels ELSE labels
           /\ description' = IF created
                              THEN [description EXCEPT ![MrOf(last_call.issue_key)] =
                                                         TemplateDoc]
                              ELSE description
           /\ last_call' = [last_call EXCEPT
                              !.mr = IF failed THEN "none"
                                     ELSE IF created THEN "created" ELSE "existing",
                              !.given = IF existing = "none" THEN appended.given ELSE <<>>,
                              !.status = IF failed THEN "error" ELSE @,
                              !.step = IF failed THEN "idle" ELSE "tracker"]
  /\ UNCHANGED <<cycle, update_status, now>>
  /\ UNCHANGED registryVars
  /\ UNCHANGED loopVars
  /\ UNCHANGED codecVars

\* create_duo_merge_request: tracker = ProgressTracker(...);
\* initial_progress = tracker.update_progress()
AgentTracker ==
  /\ last_call.step = "tracker"
  /\ \E answers \in MonitorCalls :
       IF answers.trackerFails
       THEN /\ last_call' = [last_call EXCEPT !.status = "error", !.step = "idle"]
            /\ UNCHANGED description
       ELSE \E did \in {update_progress(description[MrOf(last_call.issue_key)],
                                         answers.snap, answers.failing,
                                         answers.saveFails)} :
              /\ description' = [description EXCEPT ![MrOf(last_call.issue_key)] =
                                                      did.description]
              /\ last_call' = [last_call EXCEPT !.step = "in_review"]
  /\ UNCHANGED <<cycle, labels, update_status, now>>
  /\ UNCHANGED registryVars
  /\ UNCHANGED loopVars
  /\ UNCHANGED codecVars

\* create_duo_merge_request: self.update_jira_status(key, 'in_review'), and
\* the returns of create_duo_merge_request and process_jira_story
AgentInReview ==
  /\ last_call.step = "in_review"
  /\ \E jira \in JiraAnswers :
       last_call' = [last_call EXCEPT
                       !.pushes = Append(@, Push("in_review", update_status, jira)),
                       !.status = "success",
                       !.step = "idle"]
  /\ UNCHANGED <<labels, update_status, now>>
  /\ UNCHANGED registryVars
  /\ UNCHANGED loopVars
  /\ UNCHANGED codecVars
  /\ UNCHANGED trackerVars

\* the push of a reconciliation cycle: monitor.update_jira_status(issue_key,
\* progress) between two stories
AgentCyclePush(issue_key) ==
  /\ last_call.step = "idle"
  /\ \E new_progress \in CycleStates, jira \in JiraAnswers :
       \E out \in {update_jira_status(new_progress, update_status, jira)} :
         last_call' = [op |-> "update_jira_status", n |-> last_call.n,
                       issue_key |-> issue_key, step |-> "idle",
                       pushes |-> <<[status |-> out.val.status, jira |-> jira,
                                     transition |-> out.val.transition]>>]
  /\ UNCHANGED <<labels, update_status, now>>
  /\ UNCHANGED registryVars
  /\ UNCHANGED loopVars
  /\ UNCHANGED codecVars
  /\ UNCHANGED trackerVars

AgentNext ==
  \/ \E issue_key \in IssueKeys : AgentFetch(issue_key)
  \/ AgentInProgress
  \/ AgentBranch
  \/ AgentMergeRequest
  \/ AgentTracker
  \/ AgentInReview
  \/ \E issue_key \in IssueKeys : AgentCyclePush(issue_key)

SpecAgent == AgentInit /\ [][AgentNext]_vars

(***************************************************************************)
(* StatusMonitor.update_jira_status applied to a progress dict (pure       *)
(* function of the dict, the configuration and Jira's answer).             *)
(***************************************************************************)

StatusInit ==
  /\ CodecIdle
  /\ description = [k \in MrKeys |-> PlainDoc]
  /\ cycle = NoCycle
  /\ active_mrs = <<>>
  /\ mr_infos = [i \in 1..(MaxAdds + 1) |-> NoInfo]
  /\ allocated = 0
  /\ now = 0
  /\ pc = "status"
  /\ current_time = 0
  /\ items = <<>>
  /\ item = NoItem
  /\ progress \in ProgressStates \cup {EmptyDict}
  /\ entry = NoEntry
  /\ pass = NoPass
  /\ AgentIdle
  /\ update_status \in BOOLEAN

\* monitor.update_jira_status(issue_key, progress)
StatusCall ==
  /\ pc = "status"
  /\ \E jira \in JiraAnswers :
       \E out \in {update_jira_status(progress, update_status, jira)} :
         /\ entry' = [entry EXCEPT !.pushed = out.val.status,
                                   !.transition = out.val.transition]
         /\ pc' = IF out.exc THEN "raised" ELSE "returned"
  /\ UNCHANGED <<now, current_time, items, item, progress, pass, update_status>>
  /\ UNCHANGED registryVars
  /\ UNCHANGED codecVars
  /\ UNCHANGED trackerVars
  /\ UNCHANGED agentVars

StatusNext == StatusCall

SpecStatus == StatusInit /\ [][StatusNext]_vars

(***************************************************************************)
(* Claims.                                                                 *)
(***************************************************************************)

\* C1: for every description with a valid checklist section,
\* _update_progress_section(text, _parse_progress_section(text)) is exactly
\* text, also when the checked lines carry the canonical labels.
C1_Idempotence ==
  (cop = "roundtrip" /\ cdoc \in CanonicalDocs) => cout = cdoc

\* C5: a section whose lines are '- [ ] Initial setup complete' and
\* '- [x] Core functionality implemented', the other items unchecked, is
\* extracted as implementation = TRUE and every other item FALSE.
C5_ScenarioA ==
  (/\ cop = "parse"
   /\ \E pre \in Prefixes, suf \in Suffixes :
        cdoc = pre \o RenderSection([DefaultProgress EXCEPT !["implementation"] = TRUE]) \o suf)
    => cparsed = [DefaultProgress EXCEPT !["implementation"] = TRUE]

\* C2: a cycle on a description with a checklist section that collects the
\* same signals as the previous completed cycle on that merge request, with
\* no edit of the description in between, does not call mr.save().
C2_NoChangeNoWrite ==
  (cycle.repeat /\ HasSection(description[cycle.mr_key])) => cycle.did.saves = 0

C9_SignalIsolation ==
  cycle.mr_key # "" =>
    /\ \A c \in Checks :
         cycle.did.collected[c] =
           IF c \in cycle.failing THEN FALSE ELSE CheckOutcomes(cycle.snap, {})[c].val
    /\ cycle.did.result = EmptyDict => cycle.did.saveFailed
    /\ cycle.did.result # EmptyDict =>
         \A c \in Checks : cycle.did.result[c] = cycle.did.collected[c]

\* C9 witness: the implementation check raised while the review check, on the
\* same answers, reported TRUE and was returned
C9_Witness ==
  /\ cycle.mr_key # ""
  /\ cycle.failing = {"implementation"}
  /\ CheckOutcomes(cycle.snap, {})["implementation"].val
  /\ cycle.did.result # EmptyDict
  /\ ~cycle.did.result["implementation"]
  /\ cycle.did.result["review"]

\* C4: a cycle that observes the merge request as 'merged' or 'closed'
\* removes the entry and pushes no Jira status for it.
C4_TerminalShortCircuit ==
  entry.observed \in {"merged", "closed"} =>
    (entry.removed /\ entry.pushed = "none")

\* C6: the status passed to the agent is 'done' when acceptance is set, else
\* 'in_review' when review is set, else 'in_progress' when any of
\* implementation, tests, documentation is set, else 'to_do' (setup alone
\* included), for each of the 64 checklist states.
C6_StatusDerivation ==
  (pc = "returned" /\ progress \in ProgressStates) =>
    entry.pushed =
      CASE progress["acceptance"] -> "done"
        [] ~progress["acceptance"] /\ progress["review"] -> "in_review"
        [] /\ ~progress["acceptance"] /\ ~progress["review"]
           /\ (progress["implementation"] \/ progress["tests"] \/ progress["documentation"])
             -> "in_progress"
        [] OTHER -> "to_do"

\* C6 witness: setup alone was passed and 'to_do' was pushed
C6_Witness ==
  /\ pc = "returned"
  /\ progress = [DefaultProgress EXCEPT !["setup"] = TRUE]
  /\ entry.pushed = "to_do"

\* C7: a key leaves active_mrs only in a remove_merge_request call of a caller
\* or in a cycle on that key that observes 'merged' or 'closed'; and a cycle
\* that observes 'merged' or 'closed' leaves its key absent.
C7_RemovedOnlyWhenTerminal ==
  [][/\ \A k \in MrKeys :
          (k \in KeysOf(active_mrs) /\ k \notin KeysOf(active_mrs')) =>
            \/ \E p \in ProjectIds, m \in MrIids : MrKey(p, m) = k /\ RemoveMergeRequest(p, m)
            \/ /\ pc = "update" /\ pc' = "push"
               /\ entry'.mr_key = k
               /\ entry'.observed \in {"merged", "closed"}
     /\ (pc = "update" /\ pc' = "push" /\ entry'.observed \in {"merged", "closed"}) =>
          entry'.mr_key \notin KeysOf(active_mrs')]_vars

\* C7 witness: a cycle observed 'closed' and its key is gone
C7_Witness ==
  /\ pc = "push"
  /\ entry.observed = "closed"
  /\ entry.removed
  /\ entry.mr_key \notin KeysOf(active_mrs)

\* C8: a key that is not in active_mrs comes back only through an
\* add_merge_request call; no step of monitor_loop puts it back.
C8_RemovedIsTerminal ==
  [][\A k \in MrKeys :
       (k \notin KeysOf(active_mrs) /\ k \in KeysOf(active_mrs')) =>
         \E p \in ProjectIds, m \in MrIids, i \in IssueKeys :
           MrKey(p, m) = k /\ AddMergeRequest(p, m, i)]_vars

\* C8 witness: the cycle removed its entry, assigned last_update on the
\* object it holds, and the key is still absent
C8_Witness ==
  /\ entry.removed
  /\ entry.stamped
  /\ entry.mr_key \notin KeysOf(active_mrs)

\* C10: no failure in an entry's cycle ends monitor_loop, and when the pass
\* is over every entry that was due at its scan has been through its cycle.
C10_FailureIsolation ==
  /\ pc # "raised"
  /\ pc = "sleep" => pass.processed = pass.due

\* C10 witness: a pass in which the cycle of one entry failed and a later
\* entry of the same pass was processed without failure
C10_Witness ==
  /\ pc = "sleep"
  /\ \E f \in pass.failed, g \in pass.processed \ pass.failed : f < g

\* C11: a cycle in which the reconcile, the write-back or the lifecycle query
\* failed (update_merge_request_status returned {}) leaves the last_update of
\* its entry unchanged.
C11_StampOnlyOnSuccess ==
  [][(/\ pc = "push" /\ pc' # "push"
      /\ progress = EmptyDict
      /\ \E i \in 1..Len(active_mrs') : active_mrs'[i] = item)
       => mr_infos'[item.info].last_update = mr_infos[item.info].last_update]_vars

\* C12: when monitor_loop has stopped on the stop signal, every entry that
\* was due in the pass it had begun has completed its cycle.
C12_StopLetsPassFinish ==
  pc = "stopped" => pass.processed = pass.due

\* C13: no cycle starts for an entry whose key a caller has removed: when
\* update_merge_request_status is called the key is in active_mrs.
C13_RemovedNotReconciled ==
  [][(pc = "update" /\ pc' # "update") => item.mr_key \in KeysOf(active_mrs)]_vars

\* C14: the output of _update_progress_section has the input's text before the
\* header marker and the input's text from the section's terminator onward.
C14_OutsideUntouched ==
  cop = "update" =>
    \A pre \in Prefixes, suf \in Suffixes :
      (/\ Len(cdoc) >= Len(pre) + Len(Header) + Len(suf)
       /\ StartsWith(cdoc, pre \o Header)
       /\ EndsWith(cdoc, suf))
        => /\ Len(cout) >= Len(pre) + Len(Header) + Len(suf)
           /\ StartsWith(cout, pre \o Header)
           /\ EndsWith(cout, suf)

\* C14 witness: a hand-written section between a prefix and a '## Notes'
\* section was replaced
C14_Witness ==
  /\ cop = "update"
  /\ cdoc = "# Setup notes\n\n" \o Header \o "\n- [x] Initial setup complete\n\n"
              \o "## Notes\nCheck test coverage\n"
  /\ ~cstate["setup"]
  /\ cout = "# Setup notes\n\n" \o RenderSection(cstate) \o "## Notes\nCheck test coverage\n"

\* C15: the section reaches to the next '## ' header or the end of the text:
\* every line of a hand-written section, also one after a '### ' header or
\* after an inline '##', is read by _parse_progress_section and replaced by
\* _update_progress_section.
C15_SectionExtent ==
  cop \in {"parse", "update"} =>
    \A pre \in Prefixes, suf \in Suffixes, ls \in FreeLineSeqs :
      cdoc = pre \o Header \o "\n" \o JoinLines(ls) \o "\n" \o suf =>
        /\ cop = "parse" =>
             cparsed = [it \in ItemSet |->
                          \E i \in 1..Len(ls) :
                            LineItem(ls[i]) # 0 /\ Items[LineItem(ls[i])] = it]
        /\ cop = "update" => cout = pre \o RenderSection(cstate) \o suf

\* C16: _update_progress_section on a description without the checklist
\* header returns the description, whatever the new state.
C16_NoSectionNoOp ==
  (cop = "update" /\ cdoc \in PlainDocs) => cout = cdoc

\* C16 witness: a state with checked items was applied to a description that
\* has other headers only
C16_Witness ==
  /\ cop = "update"
  /\ cdoc = "# Setup notes\n\n## Notes\nCheck test coverage\n"
  /\ cstate["setup"]
  /\ cstate["acceptance"]
  /\ cout = cdoc

\* C17: the lines of a section set at most one item each, and a checked line
\* with both 'test' and 'documentation' sets tests and not documentation.
C17_KeywordPriority ==
  cop = "parse" =>
    \A pre \in Prefixes, suf \in Suffixes, ls \in FreeLineSeqs :
      cdoc = pre \o Header \o "\n" \o JoinLines(ls) \o "\n" \o suf =>
        /\ Cardinality({it \in ItemSet : cparsed[it]}) <= Len(ls)
        /\ ls = <<"- [X] Unit test documentation">> =>
             cparsed = [DefaultProgress EXCEPT !["tests"] = TRUE]

\* C17 witness: the line with both keywords was parsed
C17_Witness ==
  /\ cop = "parse"
  /\ cdoc = Header \o "\n- [X] Unit test documentation\n\n"
  /\ cparsed["tests"]
  /\ ~cparsed["documentation"]

\* C18: one update_progress call saves the description at most once.
C18_AtMostOneSave ==
  cycle.mr_key # "" => cycle.did.saves <= 1

\* C18 witness: a cycle found a change, saved it once and GitLab holds the
\* new description
C18_Witness ==
  /\ cycle.mr_key # ""
  /\ cycle.did.saves = 1
  /\ ~cycle.did.saveFailed
  /\ description[cycle.mr_key] = cycle.did.description
  /\ cycle.did.stored # [it \in ItemSet |-> cycle.did.result[it]]

\* C19: documentation is TRUE iff the branch has a file with a documentation
\* extension and the diff has a changed source-code file, source-code files
\* being those of the implementation signal; so with a documentation file in
\* the branch, documentation equals implementation.
C19_DocumentationSignal ==
  cop = "collect" =>
    LET hasDoc  == \E f \in Range(cycle.snap.tree) : EndsWithAny(f, {".md", ".rst", ".txt"})
        hasCode == \E f \in Range(cycle.snap.changes) :
                     EndsWithAny(f, {".py", ".js", ".ts", ".java"})
    IN  /\ cycle.did.collected["documentation"] = (hasDoc /\ hasCode)
        /\ hasDoc => cycle.did.collected["documentation"]
                       = cycle.did.collected["implementation"]

\* C20: tests is TRUE iff the branch has a file under tests/ whose name begins
\* with 'test_' and the pipeline status, when there is one, is 'success'.
C20_TestsSignal ==
  cop = "collect" =>
    cycle.did.collected["tests"] =
      (/\ \E f \in Range(cycle.snap.tree) : StartsWith(f, "tests/test_")
       /\ cycle.snap.pipeline \in {"none", "success"})

\* C21: review is TRUE iff there is at least one approval and no discussion
\* that has a resolved attribute is unresolved; discussions without the
\* attribute are ignored.
C21_ReviewSignal ==
  cop = "collect" =>
    /\ cycle.did.collected["review"] =
         (/\ cycle.snap.approved_by >= 1
          /\ "unresolved" \notin Range(cycle.snap.discussions))
    /\ (cycle.snap.approved_by = 2 /\ cycle.snap.discussions = <<"resolved", "unresolved">>)
         => ~cycle.did.collected["review"]
    /\ (cycle.snap.approved_by = 1 /\ cycle.snap.discussions = <<"resolved", "noflag">>)
         => cycle.did.collected["review"]

\* C21 witness: one approval, a resolved discussion and one without the
\* attribute gave review = TRUE
C21_Witness ==
  /\ cop = "collect"
  /\ cycle.snap.approved_by = 1
  /\ cycle.snap.discussions = <<"resolved", "noflag">>
  /\ cycle.did.collected["review"]

\* C22: within a pass the loop reconciles exactly the entries that were due
\* when the pass began: the entry in hand was due at the scan and its
\* last_update lies at least update_interval before the pass start, so no
\* entry is reconciled sooner than update_interval after its registration;
\* nothing outside the due entries is processed, and at the sleep no due
\* entry is left.
C22_DueIffReconciled ==
  /\ pc \in {"update", "push"} =>
       /\ item.info \in pass.due
       /\ current_time >= mr_infos[item.info].last_update + update_interval
  /\ pass.processed \subseteq pass.due
  /\ pc = "sleep" => pass.due \subseteq pass.processed

\* C22 witness: a pass that reconciled one entry and left alone a tracked
\* entry stamped less than update_interval before the pass began
C22_Witness ==
  /\ pc = "sleep"
  /\ pass.processed # {}
  /\ \E i \in 1..Len(active_mrs) :
       /\ active_mrs[i].info \notin pass.due
       /\ mr_infos[active_mrs[i].info].last_update > 0
       /\ mr_infos[active_mrs[i].info].last_update < current_time

\* C23: a cycle whose lifecycle query fails leaves active_mrs as it was and
\* the loop goes on; and a scan takes up again every tracked entry whose last
\* lifecycle query failed as soon as it is due.
C23_UnreadStaysTracked ==
  [][/\ (pc = "update" /\ pc' \notin {"update", "stopped"} /\ entry'.observed = "failed")
        => (active_mrs' = active_mrs /\ pc' = "push")
     /\ (pc = "scan" /\ pc' # "scan")
        => \A i \in 1..Len(active_mrs) :
             (/\ active_mrs[i].info \in pass.unread
              /\ now - mr_infos[active_mrs[i].info].last_update >= update_interval)
             => (/\ pc' = "update"
                 /\ active_mrs[i].info \in
                      {item'.info} \cup {items'[j].info : j \in 1..Len(items')})]_vars

\* C23 witness: an entry whose lifecycle query had failed in an earlier pass
\* was reconciled again, found merged and removed
C23_Witness ==
  /\ pc = "push"
  /\ entry.retry
  /\ entry.observed = "merged"
  /\ entry.removed

\* C27: a cycle that returned the empty dict pushes no status and makes no
\* transition, and a cycle whose lifecycle query failed returns the empty
\* dict.
C27_FailedCyclePushesNothing ==
  [][/\ (pc = "push" /\ pc' \notin {"push", "stopped"} /\ progress = EmptyDict)
        => (entry'.pushed = "none" /\ entry'.transition = "none")
     /\ (pc = "update" /\ pc' \notin {"update", "stopped"} /\ entry'.observed = "failed")
        => progress' = EmptyDict]_vars

\* C27 witness: the cycle of an entry failed at the lifecycle query while
\* status push is enabled, and the pass went on without a push
C27_Witness ==
  /\ update_status
  /\ entry.observed = "failed"
  /\ entry.stamped
  /\ entry.pushed = "none"

\* C25: for every checklist state s and every description d with a checklist
\* section, _parse_progress_section(_update_progress_section(d, s)) = s.
C25_RenderExtractRoundTrip ==
  (cop = "reparse" /\ HasSection(cdoc)) => cparsed = cstate

\* C26 as claimed: a cycle on a description without a checklist section does
\* not call mr.save(), whatever the collected signals are.
C26_NoSectionNoSave ==
  (cycle.mr_key # "" /\ ~HasSection(description[cycle.mr_key])) => cycle.did.saves = 0

\* C26 amended: a cycle on a description without a checklist section leaves
\* the description as it was, whatever the collected signals are, and calls
\* mr.save() only when at least one collected signal is TRUE, then once.
C26_NoSectionSameText ==
  [][(cycle'.n = cycle.n + 1 /\ ~HasSection(description[cycle'.mr_key]))
       => /\ description' = description
          /\ cycle'.did.saves =
               IF \E c \in Checks : cycle'.did.collected[c] THEN 1 ELSE 0]_vars

\* C26 witness: a cycle on a description without a section collected a TRUE
\* signal and saved the description, which is still the same text
C26_Witness ==
  /\ cycle.mr_key # ""
  /\ description[cycle.mr_key] = PlainDoc
  /\ cycle.did.description = PlainDoc
  /\ \E c \in Checks : cycle.did.collected[c]
  /\ cycle.did.saves = 1
  /\ ~cycle.did.saveFailed

\* C28: add_merge_request for a key that is in active_mrs changes neither
\* active_mrs nor any tracked dict (issue_key and last_update of that entry
\* and every other entry stay), and active_mrs never holds a key twice.
C28_AddTrackedNoOp ==
  [][/\ (last_call'.op = "add" /\ last_call'.mr_key \in KeysOf(active_mrs))
        => (active_mrs' = active_mrs /\ mr_infos' = mr_infos)
     /\ Cardinality(KeysOf(active_mrs')) = Len(active_mrs')]_vars

\* C28 witness: with two merge requests tracked, one was added again later
\* under another issue key, and its entry has the first issue key and time
C28_Witness ==
  /\ last_call.op = "add"
  /\ last_call.tracked
  /\ Len(active_mrs) = 2
  /\ \E i \in 1..Len(active_mrs) :
       /\ active_mrs[i].mr_key = last_call.mr_key
       /\ mr_infos[active_mrs[i].info].issue_key # last_call.issue_key
       /\ mr_infos[active_mrs[i].info].last_update < last_call.time

\* C24: with update_status off no push of a process_jira_story call or of a
\* reconciliation cycle makes a Jira transition, and, on or off, a push whose
\* mapped status no transition leads to makes none.
C24_DisabledPushIsNoOp ==
  \A i \in 1..Len(last_call.pushes) :
    /\ ~update_status => last_call.pushes[i].transition = "none"
    /\ last_call.pushes[i].jira = "notransition" => last_call.pushes[i].transition = "none"

\* C24 witness: with update_status off a story was processed to success, Jira
\* would have made both transitions, and none was made
C24_Witness ==
  /\ ~update_status
  /\ last_call.op = "process_jira_story"
  /\ last_call.status = "success"
  /\ Len(last_call.pushes) = 2
  /\ \A i \in 1..2 : /\ last_call.pushes[i].jira = "ok"
                      /\ last_call.pushes[i].transition = "none"

\* C29: the labels given to a merge request that is created are the
\* configured labels and the story's key, and no call changes the configured
\* labels.
C29_LabelsOfOwnStory ==
  /\ labels \in {ConfigLabels(FALSE, <<>>), ConfigLabels(TRUE, ConfiguredLabels)}
  /\ (last_call.op = "process_jira_story" /\ last_call.mr = "created")
       => last_call.given = (IF labels.present THEN ConfiguredLabels ELSE <<>>)
                              \o <<last_call.issue_key>>

\* C30: get_jira_story makes at most 3 attempts; it returns at the first
\* attempt that succeeds, having slept 1 s after the first failure and 2 s
\* after the second, and raises only when all three attempts failed.
C30_ThreeAttempts ==
  last_call.op = "process_jira_story" =>
    LET succeed == {i \in 1..3 : ~last_call.fetch[i]}
    IN  /\ last_call.attempts \in 1..3
        /\ last_call.fetched = (succeed # {})
        /\ succeed # {} => /\ last_call.attempts \in succeed
                            /\ \A i \in succeed : last_call.attempts <= i
        /\ succeed = {} => last_call.attempts = 3
        /\ last_call.slept = IF last_call.attempts = 1 THEN 0
                              ELSE IF last_call.attempts = 2 THEN 1 ELSE 3

\* C30 witness: the first two attempts failed, the third gave the story and
\* the story was processed
C30_Witness ==
  /\ last_call.op = "process_jira_story"
  /\ last_call.fetch = <<TRUE, TRUE, FALSE>>
  /\ last_call.fetched
  /\ last_call.attempts = 3
  /\ last_call.status = "success"

\* the record of a process_jira_story call, at each of its statements and
\* once it has returned
ProcessedInOrder(c) ==
  /\ c.status \in {"", "error", "success"}
  /\ (c.step = "idle") = (c.status # "")
  /\ ~c.fetched => /\ c.status = "error"
                   /\ c.pushes = <<>>
                   /\ ~c.branch
                   /\ c.mr = "none"
  /\ c.pushes # <<>> => /\ c.fetched
                        /\ c.pushes[1].status = "in_progress"
  /\ c.step = "in_progress" => c.fetched /\ c.pushes = <<>>
  /\ c.step = "branch" => Len(c.pushes) = 1 /\ ~c.branch
  /\ c.branch => Len(c.pushes) >= 1
  /\ c.step = "merge_request" => c.branch /\ c.mr = "none"
  /\ c.mr # "none" => c.branch
  /\ Len(c.pushes) = 2 => /\ c.mr # "none"
                          /\ c.pushes[2].status = "in_review"
  /\ c.status = "success" => /\ c.branch
                             /\ c.mr \in {"created", "existing"}
                             /\ Len(c.pushes) = 2

\* a step of the agent seen from a process_jira_story call: a call whose
\* fetch failed changed no merge request and no label, and a call that has
\* returned does nothing more
StoppedAtFailure ==
  /\ (last_call'.op = "process_jira_story" /\ ~last_call'.fetched)
       => description' = description /\ labels' = labels
  /\ (/\ last_call.op = "process_jira_story"
      /\ last_call.step = "idle"
      /\ last_call'.op = "process_jira_story"
      /\ last_call'.n = last_call.n)
       => UNCHANGED <<last_call, description, labels>>

\* C31: process_jira_story fetches the story, pushes 'in_progress', creates
\* the branch and creates the merge request in that order and stops at the
\* first step that fails, returning status 'error'; when the fetch fails no
\* push, branch or merge request is made for the issue, and status 'success'
\* implies a branch and a merge request.
C31_StepsInOrder ==
  /\ [](last_call.op = "process_jira_story" => ProcessedInOrder(last_call))
  /\ [][StoppedAtFailure]_vars

\* C31 witness: the second story's fetch failed on all attempts and the call
\* returned 'error' with no push, branch or merge request for the issue
C31_Witness ==
  /\ last_call.op = "process_jira_story"
  /\ last_call.n = 2
  /\ ~last_call.fetched
  /\ last_call.attempts = max_retries
  /\ last_call.status = "error"
  /\ last_call.step = "idle"
  /\ last_call.pushes = <<>>
  /\ description[MrOf(last_call.issue_key)] = PlainDoc

====
